---- MODULE Spec2Model ----
(***************************************************************************)
(* The document preview/edit controller (DocumentPreview.jsx), its owner   *)
(* (the Export page), the line classifier formatContent, and the workflow  *)
(* around them: WorkflowProvider, the routes of App and the pages Resume   *)
(* Upload, Job Search, Job Selection and AI Generation.                    *)
(*                                                                         *)
(* A text is a sequence of one-character strings; the JavaScript null is   *)
(* the value Null, which is distinct from every text.                      *)
(***************************************************************************)
EXTENDS Integers, Sequences, FiniteSets, TLC

VARIABLES
    route,          \* the mounted route: 4 is /step/4 (Export), 0 is /step/0
    workflowData,   \* WorkflowProvider: the five fields of workflowData
    currentStep,    \* WorkflowProvider: currentStep, 0..4
    showModal,      \* Export: the notification modal is shown
    modalContent,   \* Export: type and title of the last notification
    isOpen,         \* per preview: showResumePreview / showCoverLetterPreview
    isEditing,      \* per preview: DocumentPreview isEditing
    editedContent,  \* per preview: DocumentPreview editedContent
    onSaveLog,      \* the onSave calls made by the last handler that ran
    session,        \* per preview: how the last finished edit session ended
    text,           \* classifier run: the input of formatContent
    blocks,         \* classifier run: the elements formatContent returned
    pc,             \* classifier run: "input" before the call, "done" after
    uploadedFile,   \* ResumeUpload: the type of the chosen file, or NullRef
    isParsing,      \* ResumeUpload: a parse request is running
    parsedData,     \* ResumeUpload: the parsed resume, or NullRef
    isSearching,    \* JobSearch: a search request is running
    searchResults,  \* JobSearch: the jobs of the last successful search
    searchParams,   \* JobSearch: job_titles and num_results of the form
    selectedJob,    \* JobSelection: the job picked on the page, or NullRef
    isGenerating,   \* AIGeneration: a generation is running
    generationStep, \* AIGeneration: the progress line
    requests,       \* fetches in flight, per kind and per whether the page
                    \* that sent them is still mounted
    timers,         \* setTimeout callbacks not yet run: the routes they
                    \* navigate to, in the order they were set
    isExporting,    \* Export: a download is running
    exports         \* the /api/export fetches in flight, in the order sent

vars == <<route, workflowData, currentStep, showModal, modalContent, isOpen,
          isEditing, editedContent, onSaveLog, session, text, blocks, pc,
          uploadedFile, isParsing, parsedData, isSearching, searchResults,
          searchParams,
          selectedJob, isGenerating, generationStep, requests, timers,
          isExporting, exports>>

exportVars == <<route, workflowData, showModal, modalContent, isOpen,
                isEditing, editedContent, onSaveLog, session>>

classifyVars == <<text, blocks, pc>>

\* the state of the pages before Export, and the asynchronous work
pageVars == <<uploadedFile, isParsing, parsedData, isSearching, searchResults,
              searchParams,
              selectedJob, isGenerating, generationStep>>

asyncVars == <<requests, timers>>

previewVars == <<isOpen, isEditing, editedContent, onSaveLog, session>>

flowVars == <<currentStep, pageVars, asyncVars>>

exportingVars == <<isExporting, exports>>

----------------------------------------------------------------------------
(* Bounds *)

MaxDraftLen == 2

MaxTextLen == 4

MaxCompareLen == 3

----------------------------------------------------------------------------
(* Texts *)

Null == <<"null">>

\* the JavaScript null in a field whose values are modelled as strings
NullRef == "null"

DraftAlphabet == {"a"}

\* the bullet glyph U+2022, one character of a text
Bullet == "U+2022"

ClassifyAlphabet == {"a", "A", " ", "\n", "|", ":", "@", Bullet}

SeqsUpTo(S, n) == UNION {[1..m -> S] : m \in 0..n}

DraftTexts == SeqsUpTo(DraftAlphabet, MaxDraftLen)

ClassifyTexts == SeqsUpTo(ClassifyAlphabet, MaxTextLen)

Types == {"resume", "cover_letter"}

----------------------------------------------------------------------------
(* String primitives of JavaScript used by formatContent *)

WhiteSpace == {" ", "\t", "\r", "\n"}

UpperCase == {"A", "B", "C", "D", "E", "F", "G", "H", "I", "J", "K", "L", "M",
              "N", "O", "P", "Q", "R", "S", "T", "U", "V", "W", "X", "Y", "Z"}

\* String.prototype.split with a one-character separator
RECURSIVE SplitFrom(_, _, _)
SplitFrom(s, sep, cur) ==
    IF s = <<>> THEN <<cur>>
    ELSE IF Head(s) = sep
         THEN <<cur>> \o SplitFrom(Tail(s), sep, <<>>)
         ELSE SplitFrom(Tail(s), sep, Append(cur, Head(s)))

Split(s, sep) == SplitFrom(s, sep, <<>>)

RECURSIVE TrimStart(_)
TrimStart(s) ==
    IF s # <<>> /\ Head(s) \in WhiteSpace THEN TrimStart(Tail(s)) ELSE s

RECURSIVE TrimEnd(_)
TrimEnd(s) ==
    IF s # <<>> /\ s[Len(s)] \in WhiteSpace
    THEN TrimEnd(SubSeq(s, 1, Len(s) - 1))
    ELSE s

\* String.prototype.trim
Trim(s) == TrimEnd(TrimStart(s))

\* includes changed to look at the start of the string only
Includes_AtStartOnly(s, sub) ==
    Len(s) >= Len(sub) /\ SubSeq(s, 1, Len(sub)) = sub

\* String.prototype.includes
Includes(s, sub) ==
    \E i \in 1..(Len(s) - Len(sub) + 1) : SubSeq(s, i, i + Len(sub) - 1) = sub

\* String.prototype.startsWith
StartsWith(s, sub) ==
    Len(s) >= Len(sub) /\ SubSeq(s, 1, Len(sub)) = sub

\* substring changed to ignore its start index
Substring_FromStart(s, from) == s

\* String.prototype.substring(from)
Substring(s, from) == SubSeq(s, from + 1, Len(s))

\* join changed to leave out the separator
RECURSIVE Join_NoSeparator(_, _)
Join_NoSeparator(parts, sep) ==
    IF parts = <<>> THEN <<>>
    ELSE parts[1] \o Join_NoSeparator(Tail(parts), sep)

\* Array.prototype.join with a one-character separator
RECURSIVE Join(_, _)
Join(parts, sep) ==
    IF parts = <<>> THEN <<>>
    ELSE IF Len(parts) = 1 THEN parts[1]
    ELSE parts[1] \o <<sep>> \o Join(Tail(parts), sep)

\* /^[A-Z\s]+$/
MatchesUpperSpace(s) ==
    s # <<>> /\ \A i \in 1..Len(s) : s[i] \in UpperCase \cup WhiteSpace

\* the section-header pattern changed to the name pattern, without '&'
MatchesUpperSpaceAmp_NoAmp(s) ==
    s # <<>> /\ \A i \in 1..Len(s) : s[i] \in UpperCase \cup WhiteSpace

\* /^[A-Z\s&]+$/
MatchesUpperSpaceAmp(s) ==
    s # <<>> /\ \A i \in 1..Len(s) : s[i] \in UpperCase \cup WhiteSpace \cup {"&"}

LinkedIn == <<"l", "i", "n", "k", "e", "d", "i", "n", ".", "c", "o", "m">>

SectionTitles ==
    {  <<"P", "R", "O", "F", "E", "S", "S", "I", "O", "N", "A", "L", " ", "S", "U", "M", "M", "A", "R", "Y">>,
       <<"W", "O", "R", "K", " ", "E", "X", "P", "E", "R", "I", "E", "N", "C", "E">>,
       <<"E", "D", "U", "C", "A", "T", "I", "O", "N">>,
       <<"S", "K", "I", "L", "L", "S">>,
       <<"P", "R", "O", "J", "E", "C", "T", "S">>,
       <<"C", "E", "R", "T", "I", "F", "I", "C", "A", "T", "I", "O", "N", "S">>,
       <<"E", "X", "T", "R", "A", "C", "U", "R", "R", "I", "C", "U", "L", "A", "R", " ", "A", "C", "T", "I", "V", "I", "T", "I", "E", "S">>,
       <<"A", "W", "A", "R", "D", "S", " ", "&", " ", "A", "C", "H", "I", "E", "V", "E", "M", "E", "N", "T", "S">>,
       <<"V", "O", "L", "U", "N", "T", "E", "E", "R">>,
       <<"L", "A", "N", "G", "U", "A", "G", "E", "S">>,
       <<"I", "N", "T", "E", "R", "E", "S", "T", "S">> }

----------------------------------------------------------------------------
(* formatContent: one element per line, chosen by the first rule that     *)
(* matches.  role names the element the rule returns, text is the text it  *)
(* shows; the skill element shows text, a colon, and then value.           *)

Block(index, role, shown, value) ==
    [key |-> index, role |-> role, text |-> shown, value |-> value]

\* classifyLine with the name rule applied at every index
classifyLine_NameAnywhere(line, index) ==
    LET trimmedLine == Trim(line) IN
    IF trimmedLine = <<>>
    THEN Block(index, "blank", <<>>, <<>>)
    ELSE IF MatchesUpperSpace(trimmedLine) /\ Len(trimmedLine) > 3
    THEN Block(index, "person_name", trimmedLine, <<>>)
    ELSE IF \/ Includes(trimmedLine, <<"@">>)
            \/ Includes(trimmedLine, LinkedIn)
            \/ (Includes(trimmedLine, <<"|">>) /\ index < 5)
    THEN Block(index, "contact_info", trimmedLine, <<>>)
    ELSE IF /\ MatchesUpperSpaceAmp(trimmedLine)
            /\ Len(trimmedLine) > 3
            /\ \E section \in SectionTitles : Includes(trimmedLine, section)
    THEN Block(index, "section_header", trimmedLine, <<>>)
    ELSE IF Includes(trimmedLine, <<"|">>) /\ Len(Split(trimmedLine, "|")) >= 2
    THEN Block(index, "job_header", trimmedLine, <<>>)
    ELSE IF StartsWith(trimmedLine, <<Bullet>>)
    THEN Block(index, "bullet", Trim(Substring(trimmedLine, 1)), <<>>)
    ELSE IF Includes(trimmedLine, <<":">>) /\ ~Includes(trimmedLine, <<"@">>)
    THEN Block(index, "skill_entry",
               Split(trimmedLine, ":")[1],
               Trim(Join(Tail(Split(trimmedLine, ":")), ":")))
    ELSE Block(index, "paragraph", trimmedLine, <<>>)

\* classifyLine with the section-header rule not looking at the titles
classifyLine_AnyCapsIsHeader(line, index) ==
    LET trimmedLine == Trim(line) IN
    IF trimmedLine = <<>>
    THEN Block(index, "blank", <<>>, <<>>)
    ELSE IF index = 0 /\ MatchesUpperSpace(trimmedLine) /\ Len(trimmedLine) > 3
    THEN Block(index, "person_name", trimmedLine, <<>>)
    ELSE IF \/ Includes(trimmedLine, <<"@">>)
            \/ Includes(trimmedLine, LinkedIn)
            \/ (Includes(trimmedLine, <<"|">>) /\ index < 5)
    THEN Block(index, "contact_info", trimmedLine, <<>>)
    ELSE IF /\ MatchesUpperSpaceAmp(trimmedLine)
            /\ Len(trimmedLine) > 3
            /\ TRUE
    THEN Block(index, "section_header", trimmedLine, <<>>)
    ELSE IF Includes(trimmedLine, <<"|">>) /\ Len(Split(trimmedLine, "|")) >= 2
    THEN Block(index, "job_header", trimmedLine, <<>>)
    ELSE IF StartsWith(trimmedLine, <<Bullet>>)
    THEN Block(index, "bullet", Trim(Substring(trimmedLine, 1)), <<>>)
    ELSE IF Includes(trimmedLine, <<":">>) /\ ~Includes(trimmedLine, <<"@">>)
    THEN Block(index, "skill_entry",
               Split(trimmedLine, ":")[1],
               Trim(Join(Tail(Split(trimmedLine, ":")), ":")))
    ELSE Block(index, "paragraph", trimmedLine, <<>>)

\* classifyLine changed to take a line with a bar as contact information
\* below index 3 only
classifyLine_BarIsContactBelowThree(line, index) ==
    LET trimmedLine == Trim(line) IN
    IF trimmedLine = <<>>
    THEN Block(index, "blank", <<>>, <<>>)
    ELSE IF index = 0 /\ MatchesUpperSpace(trimmedLine) /\ Len(trimmedLine) > 3
    THEN Block(index, "person_name", trimmedLine, <<>>)
    ELSE IF \/ Includes(trimmedLine, <<"@">>)
            \/ Includes(trimmedLine, LinkedIn)
            \/ (Includes(trimmedLine, <<"|">>) /\ index < 3)
    THEN Block(index, "contact_info", trimmedLine, <<>>)
    ELSE IF /\ MatchesUpperSpaceAmp(trimmedLine)
            /\ Len(trimmedLine) > 3
            /\ \E section \in SectionTitles : Includes(trimmedLine, section)
    THEN Block(index, "section_header", trimmedLine, <<>>)
    ELSE IF Includes(trimmedLine, <<"|">>) /\ Len(Split(trimmedLine, "|")) >= 2
    THEN Block(index, "job_header", trimmedLine, <<>>)
    ELSE IF StartsWith(trimmedLine, <<Bullet>>)
    THEN Block(index, "bullet", Trim(Substring(trimmedLine, 1)), <<>>)
    ELSE IF Includes(trimmedLine, <<":">>) /\ ~Includes(trimmedLine, <<"@">>)
    THEN Block(index, "skill_entry",
               Split(trimmedLine, ":")[1],
               Trim(Join(Tail(Split(trimmedLine, ":")), ":")))
    ELSE Block(index, "paragraph", trimmedLine, <<>>)

classifyLine(line, index) ==
    LET trimmedLine == Trim(line) IN
    IF trimmedLine = <<>>
    THEN Block(index, "blank", <<>>, <<>>)
    ELSE IF index = 0 /\ MatchesUpperSpace(trimmedLine) /\ Len(trimmedLine) > 3
    THEN Block(index, "person_name", trimmedLine, <<>>)
    ELSE IF \/ Includes(trimmedLine, <<"@">>)
            \/ Includes(trimmedLine, LinkedIn)
            \/ (Includes(trimmedLine, <<"|">>) /\ index < 5)
    THEN Block(index, "contact_info", trimmedLine, <<>>)
    ELSE IF /\ MatchesUpperSpaceAmp(trimmedLine)
            /\ Len(trimmedLine) > 3
            /\ \E section \in SectionTitles : Includes(trimmedLine, section)
    THEN Block(index, "section_header", trimmedLine, <<>>)
    ELSE IF Includes(trimmedLine, <<"|">>) /\ Len(Split(trimmedLine, "|")) >= 2
    THEN Block(index, "job_header", trimmedLine, <<>>)
    ELSE IF StartsWith(trimmedLine, <<Bullet>>)
    THEN Block(index, "bullet", Trim(Substring(trimmedLine, 1)), <<>>)
    ELSE IF Includes(trimmedLine, <<":">>) /\ ~Includes(trimmedLine, <<"@">>)
    THEN Block(index, "skill_entry",
               Split(trimmedLine, ":")[1],
               Trim(Join(Tail(Split(trimmedLine, ":")), ":")))
    ELSE Block(index, "paragraph", trimmedLine, <<>>)

\* formatContent changed to skip the lines that are empty after trimming
formatContent_SkipsBlank(t) ==
    IF t = Null \/ t = <<>> THEN <<>>
    ELSE LET lines == SelectSeq(Split(t, "\n"), LAMBDA l : Trim(l) # <<>>)
         IN  [i \in 1..Len(lines) |-> classifyLine(lines[i], i - 1)]

\* formatContent changed to number the lines that are not empty only, so
\* that the index of a line depends on the lines before it
formatContent_CountsNonBlank(t) ==
    IF t = Null \/ t = <<>> THEN <<>>
    ELSE LET lines == Split(t, "\n")
             nonBlankBefore(i) ==
                 Cardinality({j \in 1..(i - 1) : Trim(lines[j]) # <<>>})
         IN  [i \in 1..Len(lines) |->
                 classifyLine(lines[i], nonBlankBefore(i))]

formatContent(t) ==
    IF t = Null \/ t = <<>> THEN <<>>
    ELSE LET lines == Split(t, "\n")
         IN  [i \in 1..Len(lines) |-> classifyLine(lines[i], i - 1)]

----------------------------------------------------------------------------
(* The Export page and its two DocumentPreview instances *)

NoNotification == [type |-> "", title |-> ""]

NoWorkflowData ==
    [resumeData |-> NullRef, jobsData |-> Null, selectedJob |-> NullRef,
     generatedResume |-> Null, generatedCoverLetter |-> Null]

\* what /api/resumes/upload returns for a file it can parse
ParsedResume == "parsed"

\* the jobs /api/jobs/search can return
Jobs == {"job1", "job2"}

JobLists == {<<>>, <<"job1">>, <<"job1", "job2">>}

\* the documents /api/ai/generate returns
GeneratedDocuments == {<<>>, <<"a">>}

\* the MIME types of the files a user can choose; the first two are accepted
Pdf == "application/pdf"

Docx == "application/vnd.openxmlformats-officedocument.wordprocessingml.document"

FileTypes == {Pdf, Docx, "text/plain"}

\* the kinds of fetch the pages send
RequestKinds == {"resumes/upload", "jobs/search", "ai/generate resume",
                 "ai/generate cover_letter"}

\* the routes the pages' timers navigate to
TimerRoutes == 1..4

\* the job title the search form starts with
SoftwareEngineer ==
    <<"S", "o", "f", "t", "w", "a", "r", "e", " ",
      "E", "n", "g", "i", "n", "e", "e", "r">>

\* JobSearch searchParams as first rendered; of its fields the model keeps
\* job_titles and num_results
InitialSearchParams ==
    [job_titles |-> <<SoftwareEngineer>>, num_results |-> 10]

\* the useState initial values of ResumeUpload, JobSearch, JobSelection and
\* AIGeneration: the state of a page that is not mounted or just mounted
PagesUnmounted ==
    /\ uploadedFile = NullRef
    /\ isParsing = FALSE
    /\ parsedData = NullRef
    /\ isSearching = FALSE
    /\ searchResults = <<>>
    /\ searchParams = InitialSearchParams
    /\ selectedJob = NullRef
    /\ isGenerating = FALSE
    /\ generationStep = ""

NothingPending ==
    /\ requests = [q \in RequestKinds \X BOOLEAN |-> 0]
    /\ timers = <<>>
    /\ exports = <<>>

\* the content prop the Export page passes to the preview of type k
content(k) ==
    IF k = "resume" THEN workflowData.generatedResume
    ELSE workflowData.generatedCoverLetter

\* Export.showNotification
showNotification(type, title) ==
    /\ modalContent' = [type |-> type, title |-> title]
    /\ showModal' = TRUE

\* Export.handleSaveResume: the edited text is received and not stored
handleSaveResume(updatedContent) ==
    /\ showNotification("success", "Resume Updated")
    /\ UNCHANGED workflowData

\* Export.handleSaveCoverLetter: the edited text is received and not stored
handleSaveCoverLetter(updatedContent) ==
    /\ showNotification("success", "Cover Letter Updated")
    /\ UNCHANGED workflowData

\* the onSave prop the Export page passes to the preview of type k
onSave(k, updatedContent) ==
    IF k = "resume" THEN handleSaveResume(updatedContent)
    ELSE handleSaveCoverLetter(updatedContent)

\* the Preview buttons of the Export page: setShow...Preview(true)
open(k) ==
    /\ route = 4
    /\ ~isOpen[k]
    /\ isOpen' = [isOpen EXCEPT ![k] = TRUE]
    /\ onSaveLog' = <<>>
    /\ UNCHANGED <<route, workflowData, showModal, modalContent, isEditing,
                   editedContent, session>>

\* the onClose prop (backdrop and X button): setShow...Preview(false)
onClose(k) ==
    /\ route = 4
    /\ isOpen[k]
    /\ isOpen' = [isOpen EXCEPT ![k] = FALSE]
    /\ onSaveLog' = <<>>
    /\ UNCHANGED <<route, workflowData, showModal, modalContent, isEditing,
                   editedContent, session>>

\* beginEdit changed to be offered while the preview is closed too
beginEdit_WhileClosed(k) ==
    /\ route = 4
    /\ ~isEditing[k]
    /\ isEditing' = [isEditing EXCEPT ![k] = TRUE]
    /\ onSaveLog' = <<>>
    /\ UNCHANGED <<route, workflowData, showModal, modalContent, isOpen,
                   editedContent, session>>

\* the Edit button, rendered while not editing: setIsEditing(true)
beginEdit(k) ==
    /\ route = 4
    /\ isOpen[k]
    /\ ~isEditing[k]
    /\ isEditing' = [isEditing EXCEPT ![k] = TRUE]
    /\ onSaveLog' = <<>>
    /\ UNCHANGED <<route, workflowData, showModal, modalContent, isOpen,
                   editedContent, session>>

\* editDraft changed to write every keystroke into the owner's document
editDraft_WritesThrough(k, value) ==
    /\ route = 4
    /\ isOpen[k]
    /\ isEditing[k]
    /\ editedContent' = [editedContent EXCEPT ![k] = value]
    /\ workflowData' =
          IF k = "resume"
          THEN [workflowData EXCEPT !.generatedResume = value]
          ELSE [workflowData EXCEPT !.generatedCoverLetter = value]
    /\ onSaveLog' = <<>>
    /\ UNCHANGED <<route, showModal, modalContent, isOpen, isEditing,
                   session>>

\* the textarea onChange, rendered while editing: setEditedContent(value)
editDraft(k, value) ==
    /\ route = 4
    /\ isOpen[k]
    /\ isEditing[k]
    /\ editedContent' = [editedContent EXCEPT ![k] = value]
    /\ onSaveLog' = <<>>
    /\ UNCHANGED <<route, workflowData, showModal, modalContent, isOpen,
                   isEditing, session>>

\* handleCancel changed to leave the draft as typed
handleCancel_KeepsDraft(k) ==
    /\ route = 4
    /\ isOpen[k]
    /\ isEditing[k]
    /\ isEditing' = [isEditing EXCEPT ![k] = FALSE]
    /\ session' = [session EXCEPT ![k] = "cancelled"]
    /\ onSaveLog' = <<>>
    /\ UNCHANGED <<route, workflowData, showModal, modalContent, isOpen,
                   editedContent>>

\* handleCancel changed to store the draft in the owner's document
handleCancel_Commits(k) ==
    /\ route = 4
    /\ isOpen[k]
    /\ isEditing[k]
    /\ workflowData' =
          IF k = "resume"
          THEN [workflowData EXCEPT !.generatedResume = editedContent[k]]
          ELSE [workflowData EXCEPT !.generatedCoverLetter = editedContent[k]]
    /\ isEditing' = [isEditing EXCEPT ![k] = FALSE]
    /\ session' = [session EXCEPT ![k] = "cancelled"]
    /\ onSaveLog' = <<>>
    /\ UNCHANGED <<route, showModal, modalContent, isOpen, editedContent>>

\* DocumentPreview.handleCancel, the Cancel button rendered while editing
handleCancel(k) ==
    /\ route = 4
    /\ isOpen[k]
    /\ isEditing[k]
    /\ editedContent' = [editedContent EXCEPT ![k] = content(k)]
    /\ isEditing' = [isEditing EXCEPT ![k] = FALSE]
    /\ session' = [session EXCEPT ![k] = "cancelled"]
    /\ onSaveLog' = <<>>
    /\ UNCHANGED <<route, workflowData, showModal, modalContent, isOpen>>

\* handleSave changed to pass the content prop instead of the draft
handleSave_SendsContent(k) ==
    /\ route = 4
    /\ isOpen[k]
    /\ isEditing[k]
    /\ onSave(k, content(k))
    /\ onSaveLog' = <<[type |-> k, arg |-> content(k)]>>
    /\ isEditing' = [isEditing EXCEPT ![k] = FALSE]
    /\ session' = [session EXCEPT ![k] = "saved"]
    /\ UNCHANGED <<route, isOpen, editedContent>>

\* DocumentPreview.handleSave, the Save button rendered while editing
handleSave(k) ==
    /\ route = 4
    /\ isOpen[k]
    /\ isEditing[k]
    /\ onSave(k, editedContent[k])
    /\ onSaveLog' = <<[type |-> k, arg |-> editedContent[k]]>>
    /\ isEditing' = [isEditing EXCEPT ![k] = FALSE]
    /\ session' = [session EXCEPT ![k] = "saved"]
    /\ UNCHANGED <<route, isOpen, editedContent>>

\* the onClose prop of the notification Modal: setShowModal(false)
closeModal ==
    /\ route = 4
    /\ showModal
    /\ showModal' = FALSE
    /\ onSaveLog' = <<>>
    /\ UNCHANGED <<route, workflowData, modalContent, isOpen, isEditing,
                   editedContent, session>>

\* the fetches of a page that is unmounted go on without it
orphaned(es) == [i \in 1..Len(es) |-> [es[i] EXCEPT !.live = FALSE]]

\* WorkflowProvider.resetWorkflow
resetWorkflow ==
    /\ currentStep' = 0
    /\ workflowData' = NoWorkflowData

\* Export.handleStartOver: the workflow is reset and the page is left, which
\* unmounts the Export page and drops its state and that of its previews
handleStartOver ==
    /\ route = 4
    /\ resetWorkflow
    /\ route' = 0
    /\ showModal' = FALSE
    /\ modalContent' = NoNotification
    /\ isOpen' = [k \in Types |-> FALSE]
    /\ isEditing' = [k \in Types |-> FALSE]
    /\ editedContent' = [k \in Types |-> Null]
    /\ session' = [k \in Types |-> "none"]
    /\ onSaveLog' = <<>>
    /\ isExporting' = FALSE
    /\ exports' = orphaned(exports)

----------------------------------------------------------------------------
(* What a render of DocumentPreview shows *)

\* the body: nothing while closed, the textarea while editing, else the
\* elements of formatContent(content)
renderedBody(k) ==
    IF ~isOpen[k] THEN [mode |-> "closed"]
    ELSE IF isEditing[k]
         THEN [mode |-> "editing", value |-> editedContent[k]]
         ELSE [mode |-> "viewing", elements |-> formatContent(content(k))]

\* the footer: {content?.length || 0} characters
characterCount(k) ==
    IF content(k) = Null THEN 0 ELSE Len(content(k))

----------------------------------------------------------------------------
(* Specification of the Export page: mounted with the documents that the   *)
(* generation step left in the workflow data, previews closed              *)

Init ==
    /\ route = 4
    /\ workflowData \in [resumeData : {ParsedResume},
                         jobsData : {<<"job1">>},
                         selectedJob : {"job1"},
                         generatedResume : DraftTexts \cup {Null},
                         generatedCoverLetter : DraftTexts \cup {Null}]
    /\ currentStep = 4
    /\ showModal = FALSE
    /\ modalContent = NoNotification
    /\ isOpen = [k \in Types |-> FALSE]
    /\ isEditing = [k \in Types |-> FALSE]
    /\ editedContent = [k \in Types |-> content(k)]
    /\ onSaveLog = <<>>
    /\ session = [k \in Types |-> "none"]
    /\ text = <<>>
    /\ blocks = <<>>
    /\ pc = "idle"
    /\ PagesUnmounted
    /\ NothingPending
    /\ isExporting = FALSE

Next ==
    \/ \E k \in Types : open(k) /\ UNCHANGED <<classifyVars, flowVars, exportingVars>>
    \/ \E k \in Types : onClose(k) /\ UNCHANGED <<classifyVars, flowVars, exportingVars>>
    \/ \E k \in Types : beginEdit(k) /\ UNCHANGED <<classifyVars, flowVars, exportingVars>>
    \/ \E k \in Types : \E value \in DraftTexts :
          editDraft(k, value) /\ UNCHANGED <<classifyVars, flowVars, exportingVars>>
    \/ \E k \in Types : handleCancel(k) /\ UNCHANGED <<classifyVars, flowVars, exportingVars>>
    \/ \E k \in Types : handleSave(k) /\ UNCHANGED <<classifyVars, flowVars, exportingVars>>
    \/ closeModal /\ UNCHANGED <<classifyVars, flowVars, exportingVars>>
    \/ handleStartOver /\ UNCHANGED <<classifyVars, pageVars, asyncVars>>

Spec == Init /\ [][Next]_vars

----------------------------------------------------------------------------
(* Sample documents: lines of a resume that the bounded texts are too      *)
(* short to hold, joined by newlines                                       *)

\* "John Doe | john@example.com"
NameEmailLine ==
    <<"J", "o", "h", "n", " ", "D", "o", "e", " ", "|", " ", "j", "o", "h",
      "n", "@", "e", "x", "a", "m", "p", "l", "e", ".", "c", "o", "m">>

\* "linkedin.com/in/jd"
LinkedInLine ==
    <<"l", "i", "n", "k", "e", "d", "i", "n", ".", "c", "o", "m", "/", "i",
      "n", "/", "j", "d">>

\* "SKILLS"
SkillsLine ==
    <<"S", "K", "I", "L", "L", "S">>

\* "Languages: English, Spanish"
LanguagesLine ==
    <<"L", "a", "n", "g", "u", "a", "g", "e", "s", ":", " ", "E", "n", "g",
      "l", "i", "s", "h", ",", " ", "S", "p", "a", "n", "i", "s", "h">>

\* "Engineer | Acme"
JobLine ==
    <<"E", "n", "g", "i", "n", "e", "e", "r", " ", "|", " ", "A", "c", "m",
      "e">>

\* "U+2022 Led a team of 5 engineers"
BulletLine ==
    <<Bullet, " ", "L", "e", "d", " ", "a", " ", "t", "e", "a", "m", " ",
      "o", "f", " ", "5", " ", "e", "n", "g", "i", "n", "e", "e", "r", "s">>

\* "abc|"
TrailingBarLine ==
    <<"a", "b", "c", "|">>

\* "SKILLSET BUILDING"
SkillsetLine ==
    <<"S", "K", "I", "L", "L", "S", "E", "T", " ", "B", "U", "I", "L", "D",
      "I", "N", "G">>

\* "ACME CORP"
CompanyLine ==
    <<"A", "C", "M", "E", " ", "C", "O", "R", "P">>

\* "Email: j@x.io"
EmailLine ==
    <<"E", "m", "a", "i", "l", ":", " ", "j", "@", "x", ".", "i", "o">>

\* "a:b:c"
ColonsLine ==
    <<"a", ":", "b", ":", "c">>

\* "AWARDS & ACHIEVEMENTS"
AwardsLine ==
    <<"A", "W", "A", "R", "D", "S", " ", "&", " ", "A", "C", "H", "I", "E",
      "V", "E", "M", "E", "N", "T", "S">>

\* "|"
BarLine ==
    <<"|">>

\* "Plain text"
PlainLine ==
    <<"P", "l", "a", "i", "n", " ", "t", "e", "x", "t">>

RECURSIVE Document(_)
Document(ls) ==
    IF ls = <<>> THEN <<>>
    ELSE IF Len(ls) = 1 THEN ls[1]
    ELSE ls[1] \o <<"\n">> \o Document(Tail(ls))

\* a line that no structural rule matches, used to fill the first indexes
FillerLine == <<"x">>

SampleDocuments ==
    { Document(<<NameEmailLine, LinkedInLine, <<>>, SkillsLine>>),
      Document(<<SkillsLine, SkillsetLine, BulletLine>>),
      Document(<<SkillsetLine, SkillsLine, CompanyLine>>),
      Document(<<<<>>, SkillsLine, SkillsetLine>>),
      Document(<<CompanyLine, AwardsLine, LanguagesLine, ColonsLine>>),
      Document(<<PlainLine, EmailLine, BulletLine, CompanyLine>>),
      Document(<<FillerLine, BarLine, TrailingBarLine, JobLine, <<>>,
                 TrailingBarLine, BarLine, JobLine, LinkedInLine>>),
      Document(<<FillerLine, FillerLine, <<>>, FillerLine, FillerLine,
                 NameEmailLine, EmailLine, CompanyLine, SkillsLine>>) }

----------------------------------------------------------------------------
(* Specification of one call of formatContent, on a bounded text or on a    *)
(* sample document                                                         *)

Classify ==
    /\ pc = "input"
    /\ blocks' = formatContent(text)
    /\ pc' = "done"
    /\ UNCHANGED <<text, exportVars, flowVars, exportingVars>>

InitClassify ==
    /\ route = 4
    /\ workflowData = NoWorkflowData
    /\ currentStep = 0
    /\ PagesUnmounted
    /\ NothingPending
    /\ isExporting = FALSE
    /\ showModal = FALSE
    /\ modalContent = NoNotification
    /\ isOpen = [k \in Types |-> FALSE]
    /\ isEditing = [k \in Types |-> FALSE]
    /\ editedContent = [k \in Types |-> Null]
    /\ onSaveLog = <<>>
    /\ session = [k \in Types |-> "none"]
    /\ text \in ClassifyTexts \cup SampleDocuments
    /\ blocks = <<>>
    /\ pc = "input"

NextClassify == Classify

SpecClassify == InitClassify /\ [][NextClassify]_vars

----------------------------------------------------------------------------
(* The workflow: WorkflowProvider, the routes of App and the pages before  *)
(* Export.  A fetch is a request in flight until its response is handled;  *)
(* a setTimeout callback is a timer until it runs.  Neither is cancelled   *)
(* when the page that started it is unmounted: the response of such a      *)
(* request still updates the workflow data and still starts its timer,     *)
(* while its updates of the unmounted page's state are dropped.            *)

MaxPending == 2

RECURSIVE SumOver(_, _)
SumOver(f, S) ==
    IF S = {} THEN 0
    ELSE LET x == CHOOSE y \in S : TRUE
         IN  f[x] + SumOver(f, S \ {x})

\* the requests in flight and the timers not yet run
Pending ==
    SumOver(requests, DOMAIN requests) + Len(timers) + Len(exports)

send(kind, live) ==
    requests' = [requests EXCEPT ![<<kind, live>>] = @ + 1]

setTimeout(r) ==
    timers' = Append(timers, r)

\* WorkflowProvider.updateWorkflowData
updateWorkflowData(key, value) ==
    workflowData' = [workflowData EXCEPT ![key] = value]

\* nextStep changed to count on without the limit
nextStep_Unlimited ==
    currentStep' = currentStep + 1

\* WorkflowProvider.nextStep
nextStep ==
    currentStep' = IF currentStep + 1 < 4 THEN currentStep + 1 ELSE 4

\* navigate('/step/r'): the route element of another route replaces the
\* mounted page, whose state is dropped and whose requests lose their page;
\* the Export page mounts its previews with the content of that moment
navigate(r) ==
    /\ route' = r
    /\ IF r = route
          THEN UNCHANGED <<showModal, modalContent, pageVars, requests,
                           previewVars, exportingVars>>
          ELSE /\ showModal' = FALSE
               /\ modalContent' = NoNotification
               /\ uploadedFile' = NullRef
               /\ isParsing' = FALSE
               /\ parsedData' = NullRef
               /\ isSearching' = FALSE
               /\ searchResults' = <<>>
               /\ searchParams' = InitialSearchParams
               /\ selectedJob' = NullRef
               /\ isGenerating' = FALSE
               /\ generationStep' = ""
               /\ requests' =
                     [q \in RequestKinds \X BOOLEAN |->
                         IF q[2] THEN 0
                         ELSE requests[<<q[1], TRUE>>]
                              + requests[<<q[1], FALSE>>]]
               /\ isOpen' = [k \in Types |-> FALSE]
               /\ isEditing' = [k \in Types |-> FALSE]
               /\ editedContent' =
                     [k \in Types |-> IF r = 4 THEN content(k) ELSE Null]
               /\ session' = [k \in Types |-> "none"]
               /\ onSaveLog' = <<>>
               /\ isExporting' = FALSE
               /\ exports' = orphaned(exports)

\* the callback the pages hand to setTimeout: nextStep(); navigate('/step/r');
\* every timer is set with the same delay of 1500 ms, so that the timers run
\* in the order they were set
timerFire(r) ==
    /\ timers # <<>>
    /\ Head(timers) = r
    /\ timers' = Tail(timers)
    /\ nextStep
    /\ navigate(r)
    /\ UNCHANGED workflowData

\* the onClose prop of the notification Modal of the pages before Export
onCloseModal ==
    /\ route \in 0..3
    /\ showModal
    /\ showModal' = FALSE
    /\ UNCHANGED <<route, workflowData, currentStep, modalContent, pageVars,
                   asyncVars, previewVars>>

\* handleFileSelect changed to take a file of any type
handleFileSelect_AcceptsAny(file) ==
    /\ route = 0
    /\ uploadedFile = NullRef
    /\ uploadedFile' = file
    /\ parsedData' = NullRef
    /\ UNCHANGED <<showModal, modalContent>>
    /\ UNCHANGED <<route, workflowData, currentStep, isParsing, isSearching,
                   searchResults, searchParams, selectedJob, isGenerating,
                   generationStep,
                   asyncVars, previewVars>>

\* ResumeUpload.handleFileSelect; the file input is reached through the drop
\* zone, which is shown while no file is chosen
handleFileSelect(file) ==
    /\ route = 0
    /\ uploadedFile = NullRef
    /\ IF file = Pdf \/ file = Docx
          THEN /\ uploadedFile' = file
               /\ parsedData' = NullRef
               /\ UNCHANGED <<showModal, modalContent>>
          ELSE /\ showNotification("error", "Invalid File Type")
               /\ UNCHANGED <<uploadedFile, parsedData>>
    /\ UNCHANGED <<route, workflowData, currentStep, isParsing, isSearching,
                   searchResults, searchParams, selectedJob, isGenerating,
                   generationStep,
                   asyncVars, previewVars>>

\* ResumeUpload.handleDrop
handleDrop(file) ==
    /\ route = 0
    /\ uploadedFile = NullRef
    /\ IF file = Pdf \/ file = Docx
          THEN /\ uploadedFile' = file
               /\ parsedData' = NullRef
               /\ UNCHANGED <<showModal, modalContent>>
          ELSE /\ showNotification("error", "Invalid File Type")
               /\ UNCHANGED <<uploadedFile, parsedData>>
    /\ UNCHANGED <<route, workflowData, currentStep, isParsing, isSearching,
                   searchResults, searchParams, selectedJob, isGenerating,
                   generationStep,
                   asyncVars, previewVars>>

\* ResumeUpload.removeFile
removeFile ==
    /\ route = 0
    /\ uploadedFile # NullRef
    /\ uploadedFile' = NullRef
    /\ parsedData' = NullRef
    /\ UNCHANGED <<route, workflowData, currentStep, showModal, modalContent,
                   isParsing, isSearching, searchResults, searchParams, selectedJob,
                   isGenerating, generationStep, asyncVars, previewVars>>

\* ResumeUpload.handleUpload up to its fetch; the Parse button is shown once a
\* file is chosen and is taken not to react while it shows loading
handleUpload ==
    /\ route = 0
    /\ uploadedFile # NullRef
    /\ ~isParsing
    /\ Pending < MaxPending
    /\ isParsing' = TRUE
    /\ send("resumes/upload", TRUE)
    /\ UNCHANGED <<route, workflowData, currentStep, showModal, modalContent,
                   uploadedFile, parsedData, isSearching, searchResults, searchParams,
                   selectedJob, isGenerating, generationStep, timers,
                   previewVars>>

\* handleUploadResponse changed to leave the page busy after a failure
handleUploadResponse_BusyAfterFailure(live, ok) ==
    /\ requests[<<"resumes/upload", live>>] > 0
    /\ requests' = [requests EXCEPT ![<<"resumes/upload", live>>] = @ - 1]
    /\ IF ok
          THEN /\ updateWorkflowData("resumeData", ParsedResume)
               /\ setTimeout(1)
          ELSE UNCHANGED <<workflowData, timers>>
    /\ IF live
          THEN /\ parsedData' = IF ok THEN ParsedResume ELSE parsedData
               /\ IF ok
                     THEN showNotification("success",
                                           "Resume Parsed Successfully")
                     ELSE showNotification("error", "Parsing Failed")
               /\ isParsing' = IF ok THEN FALSE ELSE isParsing
          ELSE UNCHANGED <<parsedData, showModal, modalContent, isParsing>>
    /\ UNCHANGED <<route, currentStep, uploadedFile, isSearching,
                   searchResults, searchParams, selectedJob, isGenerating,
                   generationStep,
                   previewVars>>

\* ResumeUpload.handleUpload from the response of its fetch on
handleUploadResponse(live, ok) ==
    /\ requests[<<"resumes/upload", live>>] > 0
    /\ requests' = [requests EXCEPT ![<<"resumes/upload", live>>] = @ - 1]
    /\ IF ok
          THEN /\ updateWorkflowData("resumeData", ParsedResume)
               /\ setTimeout(1)
          ELSE UNCHANGED <<workflowData, timers>>
    /\ IF live
          THEN /\ parsedData' = IF ok THEN ParsedResume ELSE parsedData
               /\ IF ok
                     THEN showNotification("success",
                                           "Resume Parsed Successfully")
                     ELSE showNotification("error", "Parsing Failed")
               /\ isParsing' = FALSE
          ELSE UNCHANGED <<parsedData, showModal, modalContent, isParsing>>
    /\ UNCHANGED <<route, currentStep, uploadedFile, isSearching,
                   searchResults, searchParams, selectedJob, isGenerating,
                   generationStep,
                   previewVars>>

\* the Search button is enabled: job_titles.some(title => title.trim())
searchEnabled ==
    \E i \in 1..Len(searchParams.job_titles) :
        Trim(searchParams.job_titles[i]) # <<>>

\* JobSearch.handleSearch up to its fetch, which sends searchParams; the
\* Search button is disabled while no job title has a non-blank character and
\* is taken not to react while it shows loading
handleSearch ==
    /\ route = 1
    /\ searchEnabled
    /\ ~isSearching
    /\ Pending < MaxPending
    /\ isSearching' = TRUE
    /\ send("jobs/search", TRUE)
    /\ UNCHANGED <<route, workflowData, currentStep, showModal, modalContent,
                   uploadedFile, isParsing, parsedData, searchResults,
                   searchParams, selectedJob, isGenerating, generationStep,
                   timers, previewVars>>

\* handleSearchResponse changed to set its timer for an empty result too
handleSearchResponse_AdvancesWhenEmpty(live, ok, jobs) ==
    /\ requests[<<"jobs/search", live>>] > 0
    /\ requests' = [requests EXCEPT ![<<"jobs/search", live>>] = @ - 1]
    /\ IF ok
          THEN /\ updateWorkflowData("jobsData", jobs)
               /\ setTimeout(2)
          ELSE UNCHANGED <<workflowData, timers>>
    /\ IF live
          THEN /\ searchResults' = IF ok THEN jobs ELSE searchResults
               /\ IF ~ok THEN showNotification("error", "Search Failed")
                  ELSE IF Len(jobs) > 0
                          THEN showNotification("success", "Search Complete")
                          ELSE showNotification("warning", "No Jobs Found")
               /\ isSearching' = FALSE
          ELSE UNCHANGED <<searchResults, showModal, modalContent,
                           isSearching>>
    /\ UNCHANGED <<route, currentStep, uploadedFile, isParsing, parsedData,
                   searchParams, selectedJob, isGenerating, generationStep,
                   previewVars>>

\* JobSearch.handleSearch from the response of its fetch on
handleSearchResponse(live, ok, jobs) ==
    /\ requests[<<"jobs/search", live>>] > 0
    /\ requests' = [requests EXCEPT ![<<"jobs/search", live>>] = @ - 1]
    /\ IF ok
          THEN /\ updateWorkflowData("jobsData", jobs)
               /\ IF Len(jobs) > 0 THEN setTimeout(2) ELSE UNCHANGED timers
          ELSE UNCHANGED <<workflowData, timers>>
    /\ IF live
          THEN /\ searchResults' = IF ok THEN jobs ELSE searchResults
               /\ IF ~ok THEN showNotification("error", "Search Failed")
                  ELSE IF Len(jobs) > 0
                          THEN showNotification("success", "Search Complete")
                          ELSE showNotification("warning", "No Jobs Found")
               /\ isSearching' = FALSE
          ELSE UNCHANGED <<searchResults, showModal, modalContent,
                           isSearching>>
    /\ UNCHANGED <<route, currentStep, uploadedFile, isParsing, parsedData,
                   searchParams, selectedJob, isGenerating, generationStep,
                   previewVars>>

\* JobSelection shows the job cards when there are jobs, else the button back
\* to the job search
hasJobs ==
    /\ workflowData.jobsData # Null
    /\ Len(workflowData.jobsData) > 0

\* JobSelection.handleJobSelect, the onClick of a job card
handleJobSelect(job) ==
    /\ route = 2
    /\ hasJobs
    /\ \E i \in 1..Len(workflowData.jobsData) : workflowData.jobsData[i] = job
    /\ selectedJob' = job
    /\ UNCHANGED <<route, workflowData, currentStep, showModal, modalContent,
                   uploadedFile, isParsing, parsedData, isSearching,
                   searchResults, searchParams, isGenerating, generationStep, asyncVars,
                   previewVars>>

\* JobSelection.handleContinue; the Continue button is shown with the job
\* cards and is disabled while no job is selected
handleContinue ==
    /\ route = 2
    /\ hasJobs
    /\ selectedJob # NullRef
    /\ Pending < MaxPending
    /\ IF selectedJob = NullRef
          THEN /\ showNotification("warning", "No Job Selected")
               /\ UNCHANGED <<workflowData, timers>>
          ELSE /\ updateWorkflowData("selectedJob", selectedJob)
               /\ showNotification("success", "Job Selected")
               /\ setTimeout(3)
    /\ UNCHANGED <<route, currentStep, pageVars, requests, previewVars>>

\* JobSelection: the Back to Job Search button, navigate('/step/1')
backToJobSearch ==
    /\ route = 2
    /\ ~hasJobs
    /\ navigate(1)
    /\ UNCHANGED <<workflowData, currentStep, timers>>

\* AIGeneration.handleGenerate up to its first fetch; the Generate button is
\* disabled while the resume or the job is missing and is taken not to react
\* while it shows loading
handleGenerate ==
    /\ route = 3
    /\ workflowData.resumeData # NullRef
    /\ workflowData.selectedJob # NullRef
    /\ ~isGenerating
    /\ Pending < MaxPending
    /\ IF workflowData.resumeData = NullRef
          \/ workflowData.selectedJob = NullRef
          THEN /\ showNotification("error", "Missing Data")
               /\ UNCHANGED <<isGenerating, generationStep, requests>>
          ELSE /\ isGenerating' = TRUE
               /\ generationStep' = "Customizing your resume..."
               /\ send("ai/generate resume", TRUE)
               /\ UNCHANGED <<showModal, modalContent>>
    /\ UNCHANGED <<route, workflowData, currentStep, uploadedFile, isParsing,
                   parsedData, isSearching, searchResults, searchParams, selectedJob,
                   timers, previewVars>>

\* AIGeneration.handleGenerate from the response of its first fetch to its
\* second fetch
handleGenerateResumeResponse(live, ok, document) ==
    /\ requests[<<"ai/generate resume", live>>] > 0
    /\ IF ok
          THEN /\ updateWorkflowData("generatedResume", document)
               /\ requests' =
                     [requests EXCEPT
                         ![<<"ai/generate resume", live>>] = @ - 1,
                         ![<<"ai/generate cover_letter", live>>] = @ + 1]
          ELSE /\ requests' =
                     [requests EXCEPT
                         ![<<"ai/generate resume", live>>] = @ - 1]
               /\ UNCHANGED workflowData
    /\ IF live /\ ok
          THEN /\ generationStep' = "Creating your cover letter..."
               /\ UNCHANGED <<showModal, modalContent, isGenerating>>
          ELSE IF live
                  THEN /\ showNotification("error", "Generation Failed")
                       /\ isGenerating' = FALSE
                       /\ generationStep' = ""
                  ELSE UNCHANGED <<showModal, modalContent, isGenerating,
                                   generationStep>>
    /\ UNCHANGED <<route, currentStep, uploadedFile, isParsing, parsedData,
                   isSearching, searchResults, searchParams, selectedJob, timers,
                   previewVars>>

\* AIGeneration.handleGenerate from the response of its second fetch on
handleGenerateCoverLetterResponse(live, ok, document) ==
    /\ requests[<<"ai/generate cover_letter", live>>] > 0
    /\ requests' =
          [requests EXCEPT ![<<"ai/generate cover_letter", live>>] = @ - 1]
    /\ IF ok
          THEN /\ updateWorkflowData("generatedCoverLetter", document)
               /\ setTimeout(4)
          ELSE UNCHANGED <<workflowData, timers>>
    /\ IF live
          THEN /\ IF ok
                     THEN showNotification("success", "Generation Complete")
                     ELSE showNotification("error", "Generation Failed")
               /\ isGenerating' = FALSE
               /\ generationStep' = ""
          ELSE UNCHANGED <<showModal, modalContent, isGenerating,
                           generationStep>>
    /\ UNCHANGED <<route, currentStep, uploadedFile, isParsing, parsedData,
                   isSearching, searchResults, searchParams, selectedJob, previewVars>>

----------------------------------------------------------------------------
(* The search form of the JobSearch page *)

MaxTitles == 2

MaxTitleLen == 1

TitleAlphabet == {"a", " "}

\* what a job title input can hold
TitleTexts == SeqsUpTo(TitleAlphabet, MaxTitleLen) \cup {SoftwareEngineer}

\* the options of the select with a larger one added
NumResultsOptions_WithFifty == {5, 10, 20, 30, 50}

\* the options of the Max results select
NumResultsOptions == {5, 10, 20, 30}

\* the rest of the state is left alone by the handlers of the form
formFrame ==
    UNCHANGED <<route, workflowData, currentStep, showModal, modalContent,
                uploadedFile, isParsing, parsedData, isSearching,
                searchResults, selectedJob, isGenerating, generationStep,
                asyncVars, previewVars>>

\* JobSearch.addJobTitle
addJobTitle ==
    /\ route = 1
    /\ Len(searchParams.job_titles) < MaxTitles
    /\ searchParams' =
          [searchParams EXCEPT !.job_titles = Append(@, <<>>)]
    /\ formFrame

\* JobSearch.updateJobTitle, the onChange of the input of title index
updateJobTitle(index, value) ==
    /\ route = 1
    /\ index \in 1..Len(searchParams.job_titles)
    /\ searchParams' =
          [searchParams EXCEPT !.job_titles =
              [i \in 1..Len(@) |-> IF i = index THEN value ELSE @[i]]]
    /\ formFrame

\* removeJobTitle changed to be offered for the last remaining title too
removeJobTitle_AlwaysOffered(index) ==
    /\ route = 1
    /\ index \in 1..Len(searchParams.job_titles)
    /\ searchParams' =
          [searchParams EXCEPT !.job_titles =
              SubSeq(@, 1, index - 1) \o SubSeq(@, index + 1, Len(@))]
    /\ formFrame

\* JobSearch.removeJobTitle; the Remove buttons are rendered while the list
\* has more than one title
removeJobTitle(index) ==
    /\ route = 1
    /\ Len(searchParams.job_titles) > 1
    /\ index \in 1..Len(searchParams.job_titles)
    /\ searchParams' =
          [searchParams EXCEPT !.job_titles =
              SubSeq(@, 1, index - 1) \o SubSeq(@, index + 1, Len(@))]
    /\ formFrame

\* the onChange of the Max results select: parseInt of the chosen option
onChangeNumResults(value) ==
    /\ route = 1
    /\ searchParams' = [searchParams EXCEPT !.num_results = value]
    /\ formFrame

\* the JobSearch page just mounted, after the resume was parsed
InitSearchForm ==
    /\ route = 1
    /\ workflowData = [NoWorkflowData EXCEPT !.resumeData = ParsedResume]
    /\ currentStep = 1
    /\ showModal = FALSE
    /\ modalContent = NoNotification
    /\ isOpen = [k \in Types |-> FALSE]
    /\ isEditing = [k \in Types |-> FALSE]
    /\ editedContent = [k \in Types |-> Null]
    /\ onSaveLog = <<>>
    /\ session = [k \in Types |-> "none"]
    /\ text = <<>>
    /\ blocks = <<>>
    /\ pc = "idle"
    /\ PagesUnmounted
    /\ NothingPending
    /\ isExporting = FALSE

NextSearchForm ==
    \/ addJobTitle /\ UNCHANGED <<classifyVars, exportingVars>>
    \/ \E index \in 1..MaxTitles : \E value \in TitleTexts :
          updateJobTitle(index, value) /\ UNCHANGED <<classifyVars, exportingVars>>
    \/ \E index \in 1..MaxTitles :
          removeJobTitle(index) /\ UNCHANGED <<classifyVars, exportingVars>>
    \/ \E value \in NumResultsOptions :
          onChangeNumResults(value) /\ UNCHANGED <<classifyVars, exportingVars>>
    \/ handleSearch /\ UNCHANGED <<classifyVars, exportingVars>>
    \/ \E live, ok \in BOOLEAN : \E jobs \in JobLists :
          handleSearchResponse(live, ok, jobs) /\ UNCHANGED <<classifyVars, exportingVars>>
    \/ \E r \in TimerRoutes : timerFire(r) /\ UNCHANGED classifyVars
    \/ onCloseModal /\ UNCHANGED <<classifyVars, exportingVars>>

SpecSearchForm == InitSearchForm /\ [][NextSearchForm]_vars

----------------------------------------------------------------------------
(* WorkflowProvider on its own: the functions of its context value, called *)
(* in any order                                                            *)

\* WorkflowProvider.prevStep
prevStep ==
    currentStep' = IF currentStep - 1 > 0 THEN currentStep - 1 ELSE 0

\* the values updateWorkflowData is called with, per key
ValuesOf(key) ==
    CASE key = "resumeData" -> {ParsedResume}
      [] key = "jobsData" -> JobLists
      [] key = "selectedJob" -> Jobs
      [] key = "generatedResume" -> GeneratedDocuments
      [] key = "generatedCoverLetter" -> GeneratedDocuments

\* what the provider does not hold
providerFrame ==
    UNCHANGED <<route, showModal, modalContent, pageVars, asyncVars,
                previewVars, exportingVars, classifyVars>>

InitProvider ==
    /\ route = 0
    /\ workflowData = NoWorkflowData
    /\ currentStep = 0
    /\ showModal = FALSE
    /\ modalContent = NoNotification
    /\ isOpen = [k \in Types |-> FALSE]
    /\ isEditing = [k \in Types |-> FALSE]
    /\ editedContent = [k \in Types |-> Null]
    /\ onSaveLog = <<>>
    /\ session = [k \in Types |-> "none"]
    /\ text = <<>>
    /\ blocks = <<>>
    /\ pc = "idle"
    /\ PagesUnmounted
    /\ NothingPending
    /\ isExporting = FALSE

NextProvider ==
    \/ nextStep /\ UNCHANGED workflowData /\ providerFrame
    \/ prevStep /\ UNCHANGED workflowData /\ providerFrame
    \/ resetWorkflow /\ providerFrame
    \/ \E key \in DOMAIN NoWorkflowData : \E value \in ValuesOf(key) :
          updateWorkflowData(key, value) /\ UNCHANGED currentStep
          /\ providerFrame

SpecProvider == InitProvider /\ [][NextProvider]_vars

----------------------------------------------------------------------------
(* The downloads of the Export page *)

\* the test if (content) of the download handlers
truthy(t) == t # Null /\ t # <<>>

\* Export.downloadFile up to its fetch, which sends the content
downloadFile(type, sent) ==
    /\ isExporting' = TRUE
    /\ exports' = Append(exports, [type |-> type, content |-> sent,
                                   live |-> TRUE])

\* Export.handleDownloadResume; the Download buttons are taken not to react
\* while they show loading
handleDownloadResume ==
    /\ route = 4
    /\ ~isExporting
    /\ Pending < MaxPending
    /\ IF truthy(workflowData.generatedResume)
          THEN downloadFile("resume", workflowData.generatedResume)
          ELSE UNCHANGED exportingVars
    /\ onSaveLog' = <<>>
    /\ UNCHANGED <<route, workflowData, showModal, modalContent, isOpen,
                   isEditing, editedContent, session>>

\* Export.handleDownloadCoverLetter
handleDownloadCoverLetter ==
    /\ route = 4
    /\ ~isExporting
    /\ Pending < MaxPending
    /\ IF truthy(workflowData.generatedCoverLetter)
          THEN downloadFile("cover_letter", workflowData.generatedCoverLetter)
          ELSE UNCHANGED exportingVars
    /\ onSaveLog' = <<>>
    /\ UNCHANGED <<route, workflowData, showModal, modalContent, isOpen,
                   isEditing, editedContent, session>>

\* the Download button of the document of type k
handleDownload(k) ==
    IF k = "resume" THEN handleDownloadResume ELSE handleDownloadCoverLetter

\* Export.downloadFile from the response of its fetch on
downloadFileResponse(i, ok) ==
    /\ i \in 1..Len(exports)
    /\ exports' = SubSeq(exports, 1, i - 1)
                     \o SubSeq(exports, i + 1, Len(exports))
    /\ IF exports[i].live
          THEN /\ IF ok
                     THEN showNotification("success", "Download Complete")
                     ELSE showNotification("error", "Download Failed")
               /\ isExporting' = FALSE
          ELSE UNCHANGED <<showModal, modalContent, isExporting>>
    /\ onSaveLog' = <<>>
    /\ UNCHANGED <<route, workflowData, isOpen, isEditing, editedContent,
                   session>>

\* the Export page just mounted, each document generated or missing
InitDownload ==
    /\ route = 4
    /\ workflowData \in [resumeData : {ParsedResume},
                         jobsData : {<<"job1">>},
                         selectedJob : {"job1"},
                         generatedResume : {Null, <<"a">>},
                         generatedCoverLetter : {Null, <<"a">>}]
    /\ currentStep = 4
    /\ showModal = FALSE
    /\ modalContent = NoNotification
    /\ isOpen = [k \in Types |-> FALSE]
    /\ isEditing = [k \in Types |-> FALSE]
    /\ editedContent = [k \in Types |-> content(k)]
    /\ onSaveLog = <<>>
    /\ session = [k \in Types |-> "none"]
    /\ text = <<>>
    /\ blocks = <<>>
    /\ pc = "idle"
    /\ PagesUnmounted
    /\ NothingPending
    /\ isExporting = FALSE

NextDownload ==
    \/ Next
    \/ \E k \in Types : handleDownload(k) /\ UNCHANGED <<classifyVars, flowVars>>
    \/ \E i \in 1..MaxPending : \E ok \in BOOLEAN :
          downloadFileResponse(i, ok) /\ UNCHANGED <<classifyVars, flowVars>>

SpecDownload == InitDownload /\ [][NextDownload]_vars

----------------------------------------------------------------------------
(* The whole workflow *)

\* the application is opened at "/", which App redirects to /step/0
InitWorkflow ==
    /\ route = 0
    /\ workflowData = NoWorkflowData
    /\ currentStep = 0
    /\ showModal = FALSE
    /\ modalContent = NoNotification
    /\ isOpen = [k \in Types |-> FALSE]
    /\ isEditing = [k \in Types |-> FALSE]
    /\ editedContent = [k \in Types |-> Null]
    /\ onSaveLog = <<>>
    /\ session = [k \in Types |-> "none"]
    /\ text = <<>>
    /\ blocks = <<>>
    /\ pc = "idle"
    /\ PagesUnmounted
    /\ NothingPending
    /\ isExporting = FALSE

NextWorkflow ==
    \/ \E file \in FileTypes : handleFileSelect(file) /\ UNCHANGED <<classifyVars, exportingVars>>
    \/ \E file \in FileTypes : handleDrop(file) /\ UNCHANGED <<classifyVars, exportingVars>>
    \/ removeFile /\ UNCHANGED <<classifyVars, exportingVars>>
    \/ handleUpload /\ UNCHANGED <<classifyVars, exportingVars>>
    \/ \E live, ok \in BOOLEAN :
          handleUploadResponse(live, ok) /\ UNCHANGED <<classifyVars, exportingVars>>
    \/ handleSearch /\ UNCHANGED <<classifyVars, exportingVars>>
    \/ \E live, ok \in BOOLEAN : \E jobs \in JobLists :
          handleSearchResponse(live, ok, jobs) /\ UNCHANGED <<classifyVars, exportingVars>>
    \/ \E job \in Jobs : handleJobSelect(job) /\ UNCHANGED <<classifyVars, exportingVars>>
    \/ handleContinue /\ UNCHANGED <<classifyVars, exportingVars>>
    \/ backToJobSearch /\ UNCHANGED classifyVars
    \/ handleGenerate /\ UNCHANGED <<classifyVars, exportingVars>>
    \/ \E live, ok \in BOOLEAN : \E document \in GeneratedDocuments :
          handleGenerateResumeResponse(live, ok, document)
          /\ UNCHANGED <<classifyVars, exportingVars>>
    \/ \E live, ok \in BOOLEAN : \E document \in GeneratedDocuments :
          handleGenerateCoverLetterResponse(live, ok, document)
          /\ UNCHANGED <<classifyVars, exportingVars>>
    \/ \E r \in TimerRoutes : timerFire(r) /\ UNCHANGED classifyVars
    \/ onCloseModal /\ UNCHANGED <<classifyVars, exportingVars>>
    \/ \E k \in Types : handleDownload(k) /\ UNCHANGED <<classifyVars, flowVars>>
    \/ \E i \in 1..MaxPending : \E ok \in BOOLEAN :
          downloadFileResponse(i, ok) /\ UNCHANGED <<classifyVars, flowVars>>
    \/ closeModal /\ UNCHANGED <<classifyVars, flowVars, exportingVars>>
    \/ handleStartOver /\ UNCHANGED <<classifyVars, pageVars, asyncVars>>

SpecWorkflow == InitWorkflow /\ [][NextWorkflow]_vars

\* the fetch of a mounted page completes: its response, or its failure,
\* arrives
completeUpload ==
    \E ok \in BOOLEAN :
        handleUploadResponse(TRUE, ok)
        /\ UNCHANGED <<classifyVars, exportingVars>>

completeSearch ==
    \E ok \in BOOLEAN : \E jobs \in JobLists :
        handleSearchResponse(TRUE, ok, jobs)
        /\ UNCHANGED <<classifyVars, exportingVars>>

completeGenerateResume ==
    \E ok \in BOOLEAN : \E document \in GeneratedDocuments :
        handleGenerateResumeResponse(TRUE, ok, document)
        /\ UNCHANGED <<classifyVars, exportingVars>>

completeGenerateCoverLetter ==
    \E ok \in BOOLEAN : \E document \in GeneratedDocuments :
        handleGenerateCoverLetterResponse(TRUE, ok, document)
        /\ UNCHANGED <<classifyVars, exportingVars>>

completeDownload ==
    \E i \in 1..MaxPending : \E ok \in BOOLEAN :
        /\ i \in 1..Len(exports)
        /\ exports[i].live
        /\ downloadFileResponse(i, ok)
        /\ UNCHANGED <<classifyVars, flowVars>>

\* the workflow in which every request of a mounted page completes
SpecWorkflowFair ==
    /\ SpecWorkflow
    /\ WF_vars(completeUpload)
    /\ WF_vars(completeSearch)
    /\ WF_vars(completeGenerateResume)
    /\ WF_vars(completeGenerateCoverLetter)
    /\ WF_vars(completeDownload)

----------------------------------------------------------------------------
(* Properties of the preview/edit controller *)

\* the length of a text as the page shows it: nothing is shown for null
textLength(t) == IF t = Null THEN 0 ELSE Len(t)

\* the text the open preview shows: the draft while editing, else the content
shownText(k) == IF isEditing[k] THEN editedContent[k] ELSE content(k)

\* C1: a save of draft text X ends in Viewing with rawText = X, and the
\* Viewing render that follows shows the classification of X.
C1_SaveCommitsDraft ==
    [][\A k \in Types :
          (handleSave(k) /\ content(k) # Null /\ editedContent[k] # Null) =>
              /\ isOpen'[k] /\ ~isEditing'[k]
              /\ content(k)' = editedContent[k]
              /\ renderedBody(k)' =
                    [mode |-> "viewing",
                     elements |-> formatContent(editedContent[k])]]_vars

\* C2: the save callback is invoked exactly once per saveEdit, with the
\* current draft as its argument, and by no other action (open, beginEdit,
\* editDraft, cancelEdit, close, or any action of the owner).
C2_SaveCallbackOncePerSave ==
    [][/\ \A k \in Types :
             handleSave(k) =>
                 onSaveLog' = <<[type |-> k, arg |-> editedContent[k]]>>
       /\ (~ \E k \in Types : handleSave(k)) => onSaveLog' = <<>>]_vars

C2_Witness ==
    \E k \in Types :
        /\ onSaveLog = <<[type |-> k, arg |-> editedContent[k]]>>
        /\ editedContent[k] # content(k)
        /\ isOpen[k] /\ ~isEditing[k]

\* C3: beginEdit, every editDraft and cancelEdit leave rawText as it was, and
\* cancelEdit returns to Viewing: a cancelled session ends in Viewing with
\* the rawText it started with.
C3_CancelKeepsRawText ==
    [][\A k \in Types :
          /\ (beginEdit(k) \/ handleCancel(k)
                \/ \E value \in DraftTexts : editDraft(k, value))
                => content(k)' = content(k)
          /\ handleCancel(k) => (isOpen'[k] /\ ~isEditing'[k])]_vars

C3_Witness ==
    \E k \in Types :
        /\ session[k] = "cancelled"
        /\ isOpen[k] /\ ~isEditing[k]
        /\ content(k) # Null
        /\ onSaveLog = <<>>

\* C4: every beginEdit starts the session with draftText = rawText.
C4_BeginEditSeedsDraft ==
    [][\A k \in Types :
          (beginEdit(k) /\ content(k) # Null)
              => editedContent'[k] = content(k)']_vars

C6_CloseWhileEditingCancels ==
    [][\A k \in Types :
          (onClose(k) /\ isEditing[k] /\ content(k) # Null) =>
              /\ ~isOpen'[k]
              /\ ~isEditing'[k]
              /\ editedContent'[k] = content(k)']_vars

\* C7: open always leads to Viewing, and Editing is entered only by an
\* explicit beginEdit.
C7_OpenLeadsToViewing ==
    [][\A k \in Types :
          /\ (open(k) /\ content(k) # Null) => (isOpen'[k] /\ ~isEditing'[k])
          /\ (~isEditing[k] /\ isEditing'[k]) => beginEdit(k)]_vars

\* C8: while the preview is open, the displayed character count is the
\* length of the text shown: the draft while Editing, rawText while Viewing.
C8_CharacterCountMatchesShownText ==
    \A k \in Types :
        (isOpen[k] /\ content(k) # Null)
            => characterCount(k) = textLength(shownText(k))

\* C9: open, beginEdit, editDraft, cancelEdit and close leave rawText (the
\* document held by the owner) unchanged.
C9_RawTextOnlyChangedBySave ==
    [][\A k \in Types :
          (open(k) \/ onClose(k) \/ beginEdit(k) \/ handleCancel(k)
             \/ \E value \in DraftTexts : editDraft(k, value))
              => workflowData' = workflowData]_vars

C9_Witness ==
    \E k \in Types :
        /\ isOpen[k] /\ isEditing[k]
        /\ editedContent[k] # content(k)
        /\ session[k] = "none"

----------------------------------------------------------------------------
(* Properties of the classifier *)

\* the number of newline-delimited lines; the empty text has none
numberOfLines(t) ==
    IF t = <<>> THEN 0
    ELSE 1 + Cardinality({p \in 1..Len(t) : t[p] = "\n"})

\* the position of the j-th newline of t
newlineAt(t, j) ==
    CHOOSE p \in 1..Len(t) :
        t[p] = "\n" /\ Cardinality({q \in 1..p : t[q] = "\n"}) = j

\* the i-th line of t: the characters between newline i-1 and newline i
lineAt(t, i) ==
    SubSeq(t,
           IF i = 1 THEN 1 ELSE newlineAt(t, i - 1) + 1,
           IF i = numberOfLines(t) THEN Len(t) ELSE newlineAt(t, i) - 1)

\* C10: formatContent returns exactly one block per newline-delimited line,
\* in line order: block i is the block of line i, and it is a blank block
\* exactly when line i holds only whitespace.
C10_OneBlockPerLine ==
    pc = "done" =>
        /\ Len(blocks) = numberOfLines(text)
        /\ \A i \in 1..Len(blocks) :
              /\ blocks[i].key = i - 1
              /\ blocks[i] = classifyLine(lineAt(text, i), i - 1)
              /\ blocks[i].role = "blank" <=>
                    \A p \in 1..Len(lineAt(text, i)) :
                        lineAt(text, i)[p] \in WhiteSpace

C10_Witness ==
    /\ pc = "done"
    /\ Len(blocks) = 3
    /\ blocks[1].role = "paragraph"
    /\ blocks[2].role = "blank"
    /\ blocks[3].role = "paragraph"
    /\ Len(text) = 4

----------------------------------------------------------------------------
(* The documented rules 2 to 7, on a trimmed line t at line index index,   *)
(* stated by character positions                                           *)

Roles == {"blank", "person_name", "contact_info", "section_header",
          "job_header", "bullet", "skill_entry", "paragraph"}

has(t, c) == \E p \in 1..Len(t) : t[p] = c

\* the position of the first c in t
firstAt(t, c) ==
    CHOOSE p \in 1..Len(t) : t[p] = c /\ \A q \in 1..(p - 1) : t[q] # c

\* how often c occurs in t
occurrences(t, c) == Cardinality({p \in 1..Len(t) : t[p] = c})

\* the number of non-empty parts of t between the separators c
nonEmptyParts(t, c) ==
    Cardinality({p \in 1..Len(t) : t[p] # c /\ (p = 1 \/ t[p - 1] = c)})

allCaps(t) == \A p \in 1..Len(t) : t[p] \in UpperCase \cup {" "}

nameRule(t, index) == index = 0 /\ allCaps(t) /\ Len(t) > 3

contactRule(t, index) ==
    has(t, "@") \/ Includes(t, LinkedIn) \/ (has(t, "|") /\ index < 5)

sectionRule(t, index) ==
    /\ \A p \in 1..Len(t) : t[p] \in UpperCase \cup {" ", "&"}
    /\ Len(t) > 3
    /\ \E title \in SectionTitles : Includes(t, title)

jobRule(t, index) == has(t, "|") /\ nonEmptyParts(t, "|") >= 2

bulletRule(t, index) == t[1] = Bullet

skillRule(t, index) == has(t, ":") /\ ~has(t, "@")

\* the trimmed text of line i of the classified text
trimmedAt(i) == Trim(lineAt(text, i))

\* C11: formatContent is total, the empty string yields no block, and a
\* non-blank line that matches none of the rules 2 to 7 is a paragraph with
\* its trimmed text.
C11_TotalWithParagraphDefault ==
    pc = "done" =>
        /\ text = <<>> => blocks = <<>>
        /\ \A i \in 1..Len(blocks) :
              /\ blocks[i].role \in Roles
              /\ ( /\ trimmedAt(i) # <<>>
                   /\ ~nameRule(trimmedAt(i), i - 1)
                   /\ ~contactRule(trimmedAt(i), i - 1)
                   /\ ~sectionRule(trimmedAt(i), i - 1)
                   /\ ~jobRule(trimmedAt(i), i - 1)
                   /\ ~bulletRule(trimmedAt(i), i - 1)
                   /\ ~skillRule(trimmedAt(i), i - 1) )
                 => /\ blocks[i].role = "paragraph"
                    /\ blocks[i].text = trimmedAt(i)

\* C12: a line that contains '@' or 'linkedin.com', or '|' at an index below
\* 5, is contact_info (and so no other role).
C12_ContactInfoFirst ==
    pc = "done" =>
        \A i \in 1..Len(blocks) :
            (\/ has(trimmedAt(i), "@")
             \/ Includes(trimmedAt(i), LinkedIn)
             \/ (has(trimmedAt(i), "|") /\ i - 1 < 5))
                => /\ blocks[i].role = "contact_info"
                   /\ blocks[i].text = trimmedAt(i)

C12_Witness ==
    /\ pc = "done"
    /\ Len(blocks) = 4
    /\ lineAt(text, 1) = NameEmailLine
    /\ blocks[1].role = "contact_info"
    /\ lineAt(text, 2) = LinkedInLine
    /\ blocks[2].role = "contact_info"

\* C13 (as claimed): an all-caps line longer than 3 characters that is not
\* one of the section titles is a paragraph.
C13_AllCapsNotATitleIsParagraph ==
    pc = "done" =>
        \A i \in 1..Len(blocks) :
            ( /\ allCaps(trimmedAt(i))
              /\ Len(trimmedAt(i)) > 3
              /\ trimmedAt(i) \notin SectionTitles )
                => blocks[i].role = "paragraph"

\* C13 (amended): at a line index above 0, an all-caps line longer than 3
\* characters that contains no section title is a paragraph.
C13_AllCapsWithoutTitleIsParagraph ==
    pc = "done" =>
        \A i \in 2..Len(blocks) :
            ( /\ allCaps(trimmedAt(i))
              /\ Len(trimmedAt(i)) > 3
              /\ ~ \E title \in SectionTitles : Includes(trimmedAt(i), title) )
                => /\ blocks[i].role = "paragraph"
                   /\ blocks[i].text = trimmedAt(i)

C13_Witness ==
    /\ pc = "done"
    /\ Len(blocks) = 4
    /\ lineAt(text, 4) = CompanyLine
    /\ blocks[4].role = "paragraph"
    /\ blocks[4].text = CompanyLine

C15_JobHeaderHasTwoParts ==
    pc = "done" =>
        \A i \in 1..Len(blocks) :
            blocks[i].role = "job_header"
                => nonEmptyParts(trimmedAt(i), "|") >= 2

\* C16: no line at an index above 0 is a person_name.
C16_NameOnlyOnFirstLine ==
    pc = "done" =>
        \A i \in 2..Len(blocks) : blocks[i].role # "person_name"

C16_Witness ==
    /\ pc = "done"
    /\ Len(blocks) = 3
    /\ lineAt(text, 1) = SkillsetLine
    /\ blocks[1].role = "person_name"
    /\ lineAt(text, 3) = CompanyLine
    /\ blocks[3].role = "paragraph"

\* C17: a skill_entry is split at its first ':' only: the key is the text
\* before it, the value the text after it without surrounding whitespace,
\* and every further colon stays in the value.
C17_SkillSplitAtFirstColon ==
    pc = "done" =>
        \A i \in 1..Len(blocks) :
            blocks[i].role = "skill_entry" =>
                LET t == trimmedAt(i)
                    p == firstAt(t, ":")
                IN  /\ has(t, ":")
                    /\ blocks[i].text = SubSeq(t, 1, p - 1)
                    /\ blocks[i].value = Trim(SubSeq(t, p + 1, Len(t)))
                    /\ occurrences(blocks[i].value, ":")
                          = occurrences(t, ":") - 1

C17_Witness ==
    /\ pc = "done"
    /\ Len(blocks) = 4
    /\ lineAt(text, 3) = LanguagesLine
    /\ blocks[3].role = "skill_entry"
    /\ blocks[3].text = <<"L", "a", "n", "g", "u", "a", "g", "e", "s">>
    /\ blocks[3].value =
          <<"E", "n", "g", "l", "i", "s", "h", ",", " ", "S", "p", "a",
             "n", "i", "s", "h">>
    /\ lineAt(text, 4) = ColonsLine
    /\ blocks[4].role = "skill_entry"
    /\ blocks[4].text = <<"a">>
    /\ blocks[4].value = <<"b", ":", "c">>

\* C18: a line that starts with the bullet glyph and contains no '@', no
\* 'linkedin.com' and no '|' is a bullet, showing the text after the glyph
\* without surrounding whitespace.
C18_BulletLine ==
    pc = "done" =>
        \A i \in 1..Len(blocks) :
            LET t == trimmedAt(i) IN
            ( /\ t # <<>>
              /\ t[1] = Bullet
              /\ ~has(t, "@") /\ ~Includes(t, LinkedIn) /\ ~has(t, "|") )
                => /\ blocks[i].role = "bullet"
                   /\ blocks[i].text = Trim(SubSeq(t, 2, Len(t)))

C18_Witness ==
    /\ pc = "done"
    /\ Len(blocks) = 3
    /\ lineAt(text, 3) = BulletLine
    /\ blocks[3].role = "bullet"
    /\ blocks[3].text =
          <<"L", "e", "d", " ", "a", " ", "t", "e", "a", "m", " ", "o",
             "f", " ", "5", " ", "e", "n", "g", "i", "n", "e", "e", "r",
             "s">>

----------------------------------------------------------------------------
(* Independence of a line's block from the other lines *)

CompareAlphabet == {"A", "\n", "|"}

CompareTexts == SeqsUpTo(CompareAlphabet, MaxCompareLen) \cup SampleDocuments

\* C19: the block of a line depends on the line's content and index only:
\* in any other document whose line i has the same content, line i gets the
\* same role and the same displayed text.
C19_BlockDependsOnLineAndIndexOnly ==
    pc = "done" =>
        \A other \in CompareTexts :
            \A i \in 1..Len(blocks) :
                (i <= numberOfLines(other) /\ lineAt(other, i) = lineAt(text, i))
                    => /\ formatContent(other)[i].role = blocks[i].role
                       /\ formatContent(other)[i].text = blocks[i].text
                       /\ formatContent(other)[i].value = blocks[i].value

C19_Witness ==
    /\ pc = "done"
    /\ Len(blocks) = 3
    /\ lineAt(text, 1) = <<>>
    /\ lineAt(text, 2) = SkillsLine
    /\ blocks[2].role = "section_header"
    /\ \E other \in SampleDocuments :
          /\ lineAt(other, 1) # <<>>
          /\ numberOfLines(other) >= 2
          /\ lineAt(other, 2) = SkillsLine

----------------------------------------------------------------------------
(* Properties of the workflow *)

\* App Routes: the page mounted at /step/r is routeElement[r + 1]
routeElement ==
    <<"Resume Upload", "Job Search", "Job Selection", "AI Generation",
      "Export">>

\* the documented order of the steps (StepProgress steps, README)
steps ==
    <<"Job Search", "Resume Upload", "Job Selection", "AI Generation",
      "Export">>

\* the page the mounted route shows
page == routeElement[route + 1]

\* b is the step documented right after a
follows(a, b) ==
    \E i \in 1..(Len(steps) - 1) : steps[i] = a /\ steps[i + 1] = b

\* C20: the steps are visited in the documented order Job Search, Resume
\* Upload, Job Selection, AI Generation, Export: whenever the completion of a
\* step (its timer running) replaces the page, the new page is the step
\* documented right after the one that was completed
C20_StepsInDocumentedOrder ==
    [][\A r \in TimerRoutes :
          timerFire(r) /\ route' # route => follows(page, page')]_vars

\* C21: only PDF and DOCX resumes are accepted: selecting or dropping a file
\* of any other type shows an error and leaves uploadedFile and parsedData as
\* they were, and the file handleUpload sends is a PDF or a DOCX file
C21_OnlyPdfAndDocxAccepted ==
    [][/\ \A file \in FileTypes \ {Pdf, Docx} :
             handleFileSelect(file) \/ handleDrop(file)
                => /\ showModal'
                   /\ modalContent'.type = "error"
                   /\ UNCHANGED <<uploadedFile, parsedData>>
       /\ handleUpload => uploadedFile \in {Pdf, Docx}]_vars

\* a file of another type was refused while the parsed data of an earlier
\* file were on the page
C21_Witness ==
    /\ route = 0
    /\ showModal
    /\ modalContent.title = "Invalid File Type"
    /\ uploadedFile = NullRef
    /\ parsedData = ParsedResume

\* C22: the job search is limited to 30 results: num_results is always one
\* of 5, 10, 20 and 30, and a search request is sent with at most 30
C22_AtMostThirtyResults ==
    /\ [](searchParams.num_results \in {5, 10, 20, 30})
    /\ [][handleSearch => searchParams.num_results <= 30]_vars

\* a search was sent after the largest option was chosen
C22_Witness ==
    /\ route = 1
    /\ searchParams.num_results = 30
    /\ requests[<<"jobs/search", TRUE>>] > 0

\* C23: job_header is never given to a line at an index below 5: a line with
\* a '|' among the first 5 lines is contact_info, and a job_header block
\* stands at index 5 or later
C23_NoJobHeaderBelowFive ==
    pc = "done" =>
        \A i \in 1..Len(blocks) :
            /\ blocks[i].role = "job_header" => i - 1 >= 5
            /\ (has(trimmedAt(i), "|") /\ i - 1 < 5)
                  => blocks[i].role = "contact_info"

\* the same line is contact_info at index 3 and a job header at index 7
C23_Witness ==
    /\ pc = "done"
    /\ Len(blocks) = 9
    /\ lineAt(text, 4) = JobLine
    /\ blocks[4].role = "contact_info"
    /\ lineAt(text, 8) = JobLine
    /\ blocks[8].role = "job_header"

\* C24: the transitions are guarded by state: beginEdit happens only while
\* viewing, handleCancel and handleSave only while editing, and while the
\* preview is closed and stays mounted neither isEditing nor the draft
\* changes
C24_TransitionsGuardedByState ==
    [][\A k \in Types :
          /\ beginEdit(k) => isOpen[k] /\ ~isEditing[k]
          /\ handleCancel(k) => isOpen[k] /\ isEditing[k]
          /\ handleSave(k) => isOpen[k] /\ isEditing[k]
          /\ (\E value \in DraftTexts : editDraft(k, value))
                => isOpen[k] /\ isEditing[k]
          /\ (~isOpen[k] /\ route' = 4)
                => /\ isEditing'[k] = isEditing[k]
                   /\ editedContent'[k] = editedContent[k]]_vars

\* a preview that was closed while editing sits closed with its flag set
C24_Witness ==
    /\ route = 4
    /\ ~isOpen["resume"]
    /\ isEditing["resume"]
    /\ isOpen["cover_letter"]
    /\ ~isEditing["cover_letter"]

\* C25: after an edited document was saved in the preview, the text the
\* next Download of that document sends is the saved text (which the draft
\* still holds while no new edit is under way), for a saved text that is
\* not empty
C25_DownloadSendsSavedText ==
    [][\A k \in Types :
          ( /\ handleDownload(k)
            /\ session[k] = "saved"
            /\ ~isEditing[k]
            /\ truthy(editedContent[k])
            /\ content(k) # Null )
             => exports' = Append(exports, [type |-> k,
                                            content |-> editedContent[k],
                                            live |-> TRUE])]_vars

\* the result of the step that navigates to route r is in the workflow data
\* after the step
storedAfter(r) ==
    CASE r = 1 -> workflowData'.resumeData # NullRef
      [] r = 2 -> /\ workflowData'.jobsData # Null
                  /\ Len(workflowData'.jobsData) > 0
      [] r = 3 -> workflowData'.selectedJob # NullRef
      [] r = 4 -> workflowData'.generatedCoverLetter # Null

\* C26: a step advances the workflow only after its result was stored: the
\* timer that advances is set in a step that stores the result (resumeData,
\* a non-empty jobsData, selectedJob, generatedCoverLetter, whose request is
\* sent in a step that stores generatedResume), currentStep and the route
\* advance only when such a timer runs, and a failed request or an empty
\* search result sets no timer
C26_AdvanceOnlyAfterStored ==
    [][/\ \A r \in TimerRoutes :
             timers' = Append(timers, r) => storedAfter(r)
       /\ \A live \in BOOLEAN :
             requests'[<<"ai/generate cover_letter", live>>]
                > requests[<<"ai/generate cover_letter", live>>]
             => workflowData'.generatedResume # Null
       /\ (currentStep' > currentStep \/ route' > route)
             => \E r \in TimerRoutes : timerFire(r)
       /\ \A live \in BOOLEAN :
             \/ handleUploadResponse(live, FALSE)
             \/ \E jobs \in JobLists : handleSearchResponse(live, FALSE, jobs)
             \/ handleSearchResponse(live, TRUE, <<>>)
             \/ \E d \in GeneratedDocuments :
                   \/ handleGenerateResumeResponse(live, FALSE, d)
                   \/ handleGenerateCoverLetterResponse(live, FALSE, d)
             => timers' = timers]_vars

\* every step was completed and the Export page is shown
C26_Witness ==
    /\ route = 4
    /\ currentStep = 4
    /\ timers = <<>>
    /\ workflowData.resumeData # NullRef
    /\ hasJobs
    /\ workflowData.selectedJob # NullRef
    /\ workflowData.generatedResume # Null
    /\ workflowData.generatedCoverLetter # Null

\* C27: when the user goes on through the step actions of the pages (which
\* leaves out the button back to the job search), currentStep stays equal to
\* the index of the route shown, also when a step action is triggered again
\* before the timer of the first one has run
C27_CurrentStepFollowsRoute ==
    [][(currentStep = route /\ ~backToJobSearch)
          => currentStep' = route']_vars

\* C28: currentStep stays within 0..4 under any sequence of nextStep, prevStep
\* and resetWorkflow calls: nextStep adds 1 below 4 and changes nothing at 4,
\* prevStep takes 1 away above 0 and changes nothing at 0, and resetWorkflow
\* sets currentStep to 0 and every field of the workflow data to null
C28_CurrentStepInRange ==
    /\ [](currentStep \in 0..4)
    /\ [][/\ (nextStep /\ UNCHANGED workflowData)
              => currentStep' = IF currentStep = 4 THEN 4 ELSE currentStep + 1
          /\ (prevStep /\ UNCHANGED workflowData)
              => currentStep' = IF currentStep = 0 THEN 0 ELSE currentStep - 1
          /\ resetWorkflow
              => /\ currentStep' = 0
                 /\ workflowData'.resumeData = NullRef
                 /\ workflowData'.jobsData = Null
                 /\ workflowData'.selectedJob = NullRef
                 /\ workflowData'.generatedResume = Null
                 /\ workflowData'.generatedCoverLetter = Null]_vars

\* the last step was reached with every field of the workflow data set
C28_Witness ==
    /\ currentStep = 4
    /\ workflowData.resumeData # NullRef
    /\ workflowData.jobsData # Null
    /\ workflowData.selectedJob # NullRef
    /\ workflowData.generatedResume # Null
    /\ workflowData.generatedCoverLetter # Null

\* C29: every busy flag that is set when a request starts is reset to false
\* in the end, given that the request completes, whether it succeeds or
\* fails
C29_BusyFlagsAreReset ==
    /\ isParsing ~> ~isParsing
    /\ isSearching ~> ~isSearching
    /\ isGenerating ~> ~isGenerating
    /\ isExporting ~> ~isExporting

\* a parse failed and the page is no longer busy
C29_Witness ==
    /\ route = 0
    /\ showModal
    /\ modalContent.title = "Parsing Failed"
    /\ ~isParsing
    /\ requests[<<"resumes/upload", TRUE>>] = 0

\* a title with a character that is not white space
nonBlank(title) == \E p \in 1..Len(title) : title[p] \notin WhiteSpace

\* C30: the job_titles list of the search form is never empty, whatever
\* titles are added, updated and removed (a title is removed only while the
\* list has more than one), and a search is started only while at least one
\* title is non-blank
C30_JobTitlesNeverEmpty ==
    /\ [](Len(searchParams.job_titles) >= 1)
    /\ [][/\ (\E index \in 1..MaxTitles : removeJobTitle(index))
              => Len(searchParams.job_titles) > 1
          /\ handleSearch
              => \E i \in 1..Len(searchParams.job_titles) :
                    nonBlank(searchParams.job_titles[i])]_vars

\* a search runs with a blank title and a non-blank title in the form
C30_Witness ==
    /\ route = 1
    /\ searchParams.job_titles = << <<" ">>, <<"a">> >>
    /\ isSearching
    /\ requests[<<"jobs/search", TRUE>>] = 1

====
